---- MODULE Spec2Model ----
(***************************************************************************)
(* Model of src/sync_notion_with_ai.py: the run of main() against the      *)
(* content store (one target page, one tracking database).  Every request  *)
(* the program sends to the store is one step; the store answers each with *)
(* success, an HTTP error status, or a transport exception.                *)
(***************************************************************************)
EXTENDS Integers, Sequences, FiniteSets, TLC

(* ------------------------------ bounds -------------------------------- *)
\* runs of main() one after the other
MaxRuns == 2
\* pre-existing blocks of the target page: 0..MaxOld, and one listing page + 1
MaxOld == 2
\* lines of synthesized markdown: 0..MaxNew, and k batches (+1) for k <= MaxBatches
MaxNew == 2
MaxBatches == 2
\* the store may answer a delete with an HTTP error status for the first
\* MaxRejected blocks of a listing (and does for a block that is gone)
MaxRejected == 1
\* listing pages fed to the Content Reader, and blocks per fed page
MaxPages == 3
MaxPageBlocks == 2
\* characters of a branch name
MaxBranchLen == 3
\* characters a configured page id is short or long of ID_LEN
MaxIdSlack == 2
\* tokens of a markdown line; lines of a markdown text; blocks rendered
MaxLineTokens == 4
MaxLines == 2
MaxBlocks == 2

(* ------------------------- program constants -------------------------- *)
\* params = {"page_size": 100}; also the store's default listing size
page_size == 100
\* batch_size = 100
batch_size == 100
\* if len(clean_id) != 32
ID_LEN == 32

(* ------------------------------ strings ------------------------------- *)
\* a string is a sequence of characters; a character is a string: itself when
\* it is printable ASCII, its escape or the name of its code point otherwise.
\* An optional value is a sequence of length 0 (None) or 1
None == <<>>
Some(x) == <<x>>

UpperChars == <<"A","B","C","D","E","F","G","H","I","J","K","L","M",
                "N","O","P","Q","R","S","T","U","V","W","X","Y","Z">>
LowerChars == <<"a","b","c","d","e","f","g","h","i","j","k","l","m",
                "n","o","p","q","r","s","t","u","v","w","x","y","z">>
Digits == {"0","1","2","3","4","5","6","7","8","9"}

Range(s) == {s[i] : i \in DOMAIN s}

RECURSIVE Concat(_)
\* the concatenation of a sequence of sequences
Concat(seqs) ==
    IF seqs = <<>> THEN <<>>
    ELSE Concat(SubSeq(seqs, 1, Len(seqs) - 1)) \o seqs[Len(seqs)]

\* str.lower() on one character that lowers to one character
LowerChar(c) ==
    IF c \in Range(UpperChars)
    THEN LowerChars[CHOOSE i \in DOMAIN UpperChars : UpperChars[i] = c]
    ELSE c

\* str.lower(): character by character; LATIN CAPITAL LETTER I WITH DOT ABOVE
\* lowers to two characters, "i" and COMBINING DOT ABOVE
Lower(s) ==
    Concat([i \in DOMAIN s |->
               IF s[i] = "U+0130" THEN <<"i", "U+0307">> ELSE <<LowerChar(s[i])>>])

\* str.replace("-", "")
RemoveHyphens(s) == SelectSeq(s, LAMBDA c : c # "-")

\* the character class [a-zA-Z0-9_-]
IsPrefixChar(c) ==
    c \in Range(UpperChars) \cup Range(LowerChars) \cup Digits \cup {"_", "-"}

(* --------------------------- Prefix Router ---------------------------- *)
\* mutant: the matched run is returned as it is written
extract_prefix_unfolded(branch) ==
    LET n == Len(branch)
        run == CHOOSE k \in 0..n :
                  /\ \A i \in 1..k : IsPrefixChar(branch[i])
                  /\ (k < n => ~IsPrefixChar(branch[k + 1]))
    IN  IF run >= 1 /\ run < n /\ branch[run + 1] = "/"
        THEN Some(SubSeq(branch, 1, run))
        ELSE None

\* re.match(r"^([a-zA-Z0-9_-]+)/", branch): the leading run of class
\* characters, which must be non-empty and followed by "/"
extract_prefix_from_branch(branch) ==
    LET n == Len(branch)
        run == CHOOSE k \in 0..n :
                  /\ \A i \in 1..k : IsPrefixChar(branch[i])
                  /\ (k < n => ~IsPrefixChar(branch[k + 1]))
    IN  IF run >= 1 /\ run < n /\ branch[run + 1] = "/"
        THEN Some(Lower(SubSeq(branch, 1, run)))
        ELSE None

default_key == <<"d","e","f","a","u","l","t">>

\* result of a call: a value, or a raised exception
Ok(v) == [ok |-> TRUE, val |-> v]
Raise(e) == [ok |-> FALSE, val |-> e]

\* mutant: the default entry is taken whenever the mapping has one
get_page_id_default_first(prefix, mapping) ==
    IF default_key \in DOMAIN mapping
    THEN Ok(mapping[default_key])
    ELSE IF prefix # None /\ prefix[1] # <<>> /\ prefix[1] \in DOMAIN mapping
    THEN Ok(mapping[prefix[1]])
    ELSE Raise("ValueError")

\* a mapping is a function from keys (strings) to page identifiers
get_page_id_for_prefix(prefix, mapping) ==
    IF prefix # None /\ prefix[1] # <<>> /\ prefix[1] \in DOMAIN mapping
    THEN Ok(mapping[prefix[1]])
    ELSE IF default_key \in DOMAIN mapping
    THEN Ok(mapping[default_key])
    ELSE Raise("ValueError")

(* ------------------------- Page ID Normalizer ------------------------- *)
format_page_id(id) ==
    LET clean_id == Lower(RemoveHyphens(id))
    IN  IF Len(clean_id) # ID_LEN
        THEN Raise("ValueError")
        ELSE Ok(SubSeq(clean_id, 1, 8) \o <<"-">> \o SubSeq(clean_id, 9, 12)
                \o <<"-">> \o SubSeq(clean_id, 13, 16) \o <<"-">>
                \o SubSeq(clean_id, 17, 20) \o <<"-">> \o SubSeq(clean_id, 21, 32))

(* ------------------------------ inputs -------------------------------- *)
\* the processes that may run main() at the same time
Runs == {1, 2}

Min(a, b) == IF a < b THEN a ELSE b

\* the identifier of the target page, compact and in the forms a
\* page_mapping.json may hold it in
TargetCompact == [i \in 1..ID_LEN |-> IF i % 2 = 1 THEN "a" ELSE "1"]
TargetUpperDashed ==
    <<"A","1","A","1","A","1","A","1","-","A","1","A","1","-","A","1","A","1",
      "-","A","1","A","1","-","A","1","A","1","A","1","A","1","A","1","A","1">>
TooShortId == SubSeq(TargetCompact, 1, ID_LEN - 1)
\* the identifier the store knows the target page by
TargetId == format_page_id(TargetCompact).val

feat_key == <<"f","e","a","t">>

\* page_mapping.json as load_page_mapping() may return it
Mappings ==
    { (feat_key :> TargetUpperDashed) @@ (default_key :> TargetCompact),
      (feat_key :> TargetCompact),
      (feat_key :> TargetCompact) @@ (default_key :> TooShortId) }

\* the pull requests load_pr() may return (url and branch; the other fields
\* are not read by any store request but the tracking row's)
PRs ==
    { [url |-> "pr/1", branch |-> <<"F","e","a","t","/","x">>],
      [url |-> "pr/2", branch |-> <<"m","a","i","n">>] }

(* ------------------------------ blocks -------------------------------- *)
BlockTypes == <<"heading_1", "heading_2", "heading_3", "bulleted_list_item",
                "numbered_list_item", "paragraph">>
\* the markers a markdown text starts the lines of these types with
TypeMarkers == << <<"#"," ">>, <<"#","#"," ">>, <<"#","#","#"," ">>,
                  <<"-"," ">>, <<"1","."," ">>, <<>> >>

TypeOf(k) == BlockTypes[(k % Len(BlockTypes)) + 1]

\* a block: its type and its text; the text of block k of owner is the two
\* characters <<owner, k>>, which is unique (owner 0: on the page before any
\* run; owner n: line k of the synthesis of run number n) and stands for the
\* block's id in the store as well
Block(owner, k) == [type |-> TypeOf(k), text |-> <<ToString(owner), ToString(k)>>]

OldPage(m) == [k \in 1..m |-> Block(0, k)]

MarkerOf(type) ==
    TypeMarkers[CHOOSE i \in DOMAIN BlockTypes : BlockTypes[i] = type]

\* the bullet of lines 131 and 233, as the source file holds it: the three
\* characters U+201A, U+00C4, U+00A2
bullet == <<"U+201A", "U+00C4", "U+00A2">>

\* the characters str.rstrip() strips and \s matches
Whitespace == {" ", "\t", "\r", "\f", "U+00A0"}

\* line.startswith(p) and line[k:]
StartsWith(line, p) == Len(line) >= Len(p) /\ SubSeq(line, 1, Len(p)) = p
Drop(line, k) == SubSeq(line, k + 1, Len(line))

\* str.rstrip()
rstrip(line) ==
    LET n == CHOOSE k \in 0..Len(line) :
                 /\ (k = 0 \/ line[k] \notin Whitespace)
                 /\ \A i \in (k + 1)..Len(line) : line[i] \in Whitespace
    IN  SubSeq(line, 1, n)

RECURSIVE split(_)
\* str.split("\n"): a text as the sequence of its lines (one at least)
split(text) ==
    IF \A i \in DOMAIN text : text[i] # "\n" THEN <<text>>
    ELSE LET p == CHOOSE i \in DOMAIN text :
                      /\ text[i] = "\n"
                      /\ \A j \in 1..(i - 1) : text[j] # "\n"
         IN  <<SubSeq(text, 1, p - 1)>> \o split(Drop(text, p))

\* lines 122-135: the line of a block that has rich text
content_part(block) ==
    IF block.type = "heading_1" THEN <<"#", " ">> \o block.text
    ELSE IF block.type = "heading_2" THEN <<"#", "#", " ">> \o block.text
    ELSE IF block.type = "heading_3" THEN <<"#", "#", "#", " ">> \o block.text
    ELSE IF block.type = "bulleted_list_item" THEN bullet \o <<" ">> \o block.text
    ELSE IF block.type = "numbered_list_item" THEN <<"1", ".", " ">> \o block.text
    ELSE block.text

\* lines 112-137: the text the Content Reader returns, as the sequence of its
\* lines: "\n".join(content_parts), blocks without rich text skipped
RenderBlocks(blocks) ==
    LET shown == SelectSeq(blocks, LAMBDA b : b.text # <<>>)
    IN  IF shown = <<>> THEN << <<>> >>
        ELSE Concat([i \in DOMAIN shown |-> split(content_part(shown[i]))])

\* a completion of n content lines for run number no, as the sequence of its
\* lines: a blank line between any two content lines, every second of them
\* holding a space
SynthDoc(no, n) ==
    [j \in 1..(IF n = 0 THEN 0 ELSE 2 * n - 1) |->
        IF j % 2 = 1
        THEN MarkerOf(TypeOf((j + 1) \div 2))
                 \o <<ToString(no), ToString((j + 1) \div 2)>>
        ELSE IF j % 4 = 0 THEN <<" ">> ELSE <<>>]

\* re.match(r"^\d+\.\s", line): the number of characters matched, 0 for no
\* match
numbered_marker(line) ==
    LET d == CHOOSE k \in 0..Len(line) :
                 /\ \A i \in 1..k : line[i] \in Digits
                 /\ (k < Len(line) => line[k + 1] \notin Digits)
    IN  IF d >= 1 /\ Len(line) >= d + 2 /\ line[d + 1] = "."
           /\ line[d + 2] \in Whitespace
        THEN d + 2 ELSE 0

\* lines 205-260: the block of a line that is not empty
block_of_line(line) ==
    IF StartsWith(line, <<"#", " ">>)
    THEN [type |-> "heading_1", text |-> Drop(line, 2)]
    ELSE IF StartsWith(line, <<"#", "#", " ">>)
    THEN [type |-> "heading_2", text |-> Drop(line, 3)]
    ELSE IF StartsWith(line, <<"#", "#", "#", " ">>)
    THEN [type |-> "heading_3", text |-> Drop(line, 4)]
    ELSE IF StartsWith(line, <<"-", " ">>) \/ StartsWith(line, bullet \o <<" ">>)
    THEN [type |-> "bulleted_list_item", text |-> Drop(line, 2)]
    ELSE IF numbered_marker(line) > 0
    THEN [type |-> "numbered_list_item", text |-> Drop(line, numbered_marker(line))]
    ELSE [type |-> "paragraph", text |-> line]

\* lines 196-262, on the lines of markdown.split("\n"): each line is
\* stripped on the right, an empty one skipped, the others converted in order
markdown_to_notion_blocks(lines) ==
    LET stripped == [i \in DOMAIN lines |-> rstrip(lines[i])]
        kept == SelectSeq(stripped, LAMBDA line : line # <<>>)
    IN  [i \in DOMAIN kept |-> block_of_line(kept[i])]

(* ----------------------------- the store ------------------------------ *)
\* GET /blocks/{page_id}/children: at most page_size children from the cursor
\* on (a cursor is the position of the first child not yet listed)
ListChildren(children, cursor) ==
    LET from == IF cursor = None THEN 1 ELSE cursor[1]
        to == Min(from + page_size - 1, Len(children))
    IN  [results |-> SubSeq(children, from, to),
         has_more |-> to < Len(children),
         next_cursor |-> IF to < Len(children) THEN Some(to + 1) ELSE None]

\* DELETE /blocks/{block_id}
RemoveBlock(children, id) == SelectSeq(children, LAMBDA b : b.text # id)

OnPage(children, id) == \E i \in DOMAIN children : children[i].text = id

\* mutant: the query's filter is not applied
QueryByUrl_unfiltered(rows, url) == rows

\* POST /databases/{database_id}/query with the Link filter
QueryByUrl(rows, url) == SelectSeq(rows, LAMBDA row : row.url = url)

(* ------------------------------- state -------------------------------- *)
VARIABLES
    page,             \* the target page's live children, in order
    tracking,         \* the tracking database's rows, in insertion order
    PR_DATABASE_ID,   \* None, or the configured tracking database
    feed,             \* the listing pages a Content Reader is fed (reader runs)
    started,          \* the number of runs of main() started so far
    page0,            \* the page's children when the latest run started
                      \* (history)
    run,              \* per process: the run of main() in it, its position
                      \* and its locals
    call              \* a call of one function outside a run: the function,
                      \* its arguments, and what it has returned so far

vars == <<page, tracking, PR_DATABASE_ID, feed, started, page0, run, call>>

NoPR == [url |-> "", branch |-> <<>>]

\* no function is called outside a run
NoCall == [fn |-> "", args |-> <<>>, returned |-> <<>>]

\* a run that has not started; no: the number of the run (the first run of
\* main() is 1); requests: the requests it has issued, in order, each with its
\* answer (both are history, the program reads neither)
IdleRun ==
    [pc |-> "idle", no |-> 0, failed_at |-> "", pr |-> NoPR, prefix |-> None,
     page_id |-> None,
     blocks |-> <<>>, has_more |-> TRUE, start_cursor |-> None,
     existing_content |-> <<>>, new_blocks |-> <<>>,
     listed |-> <<>>, del_i |-> 1, i |-> 0, exists |-> FALSE,
     requests |-> <<>>]

Request(op, res) ==
    [op |-> op, res |-> res, cursor |-> None, block |-> <<>>, batch |-> <<>>,
     url |-> ""]

\* the answers to a request: done, refused with an HTTP error status, or
\* an exception of the transport
Answers == {"ok", "http_error", "exception"}
\* the answers to a request that is followed by r.raise_for_status(): the
\* error status raises there, as an exception of the transport does in the
\* request itself, so that the two are one case
CheckedAnswers == {"ok", "http_error"}

\* an exception leaves main(): the run ends without success
Failed(rec, stage) == [rec EXCEPT !.pc = "failed", !.failed_at = stage]

Sent(rec, req) == [rec EXCEPT !.requests = Append(@, req)]

(* --------------------------- main(): start ---------------------------- *)
\* lines 386-400: configuration, prefix, routing and normalization; none of
\* them sends a request
main_start(rec, pr, mapping) ==
    LET prefix == extract_prefix_from_branch(pr.branch)
        routed == get_page_id_for_prefix(prefix, mapping)
        formatted == format_page_id(routed.val)
        loaded == [rec EXCEPT !.pr = pr, !.prefix = prefix]
    IN  IF ~routed.ok THEN Failed(loaded, "route")
        ELSE IF ~formatted.ok THEN Failed(loaded, "normalize")
        ELSE [loaded EXCEPT !.pc = "read", !.page_id = Some(formatted.val),
                            !.blocks = <<>>, !.has_more = TRUE,
                            !.start_cursor = None]

\* a process starts main(), page_mapping.json being one of mappings
BeginWith(r, mappings) ==
    /\ started' = started + 1
    /\ page0' = page
    /\ \E pr \in PRs, mapping \in mappings :
          run' = [run EXCEPT ![r] =
                    main_start([IdleRun EXCEPT !.no = started + 1], pr, mapping)]
    /\ UNCHANGED <<page, tracking, PR_DATABASE_ID, feed, call>>

Begin(r) == BeginWith(r, Mappings)

Start(r) ==
    /\ run[r].pc = "idle"
    /\ Begin(r)

\* main() has ended, with success or not, and is run again (the next pull
\* request event); at most MaxRuns runs in all
Restart(r) ==
    /\ run[r].pc \in {"done", "failed"}
    /\ started < MaxRuns
    /\ Begin(r)

(* --------------------------- Content Reader --------------------------- *)
\* mutant: each pass replaces the blocks read so far instead of extending them
reader_step_overwriting(rec, data) ==
    LET more == [rec EXCEPT !.blocks = data.results, !.has_more = data.has_more,
                            !.start_cursor = data.next_cursor]
    IN  IF data.has_more THEN more
        ELSE [rec EXCEPT !.existing_content = RenderBlocks(data.results),
                         !.blocks = <<>>, !.has_more = TRUE,
                         !.start_cursor = None, !.pc = "synthesize"]

\* one pass of the while loop on the store's answer data, and the rendering
\* once has_more is false; the function's locals end with it
reader_step(rec, data) ==
    LET blocks == rec.blocks \o data.results
        more == [rec EXCEPT !.blocks = blocks, !.has_more = data.has_more,
                            !.start_cursor = data.next_cursor]
    IN  IF data.has_more THEN more
        ELSE [rec EXCEPT !.existing_content = RenderBlocks(blocks),
                         !.blocks = <<>>, !.has_more = TRUE,
                         !.start_cursor = None, !.pc = "synthesize"]

\* the listing request of one pass: start_cursor is sent when it is set; the
\* store answers it with a listing only when page_id names the page
ListRequest(rec, res) ==
    [Request("list_children", res) EXCEPT !.cursor = rec.start_cursor]

get_notion_page_content(r, data) ==
    /\ run[r].pc = "read"
    /\ \E res \in CheckedAnswers :
          /\ res = "ok" => run[r].page_id = Some(TargetId)
          /\ run' = [run EXCEPT ![r] =
                      IF res = "ok"
                      THEN reader_step(Sent(@, ListRequest(@, res)), data)
                      ELSE Failed(Sent(@, ListRequest(@, res)), "read")]
    /\ UNCHANGED <<page, tracking, PR_DATABASE_ID, feed, started, page0, call>>

\* the reader against the store
ReadStore(r) ==
    /\ feed = <<>>
    /\ get_notion_page_content(r, ListChildren(page, run[r].start_cursor))

\* the reader against a fed chain of listing pages: the cursor of a page is
\* its position in the chain, a request without cursor gets the first page
FeedAnswer(cursor) == feed[IF cursor = None THEN 1 ELSE cursor[1]]

ReadFed(r) ==
    /\ feed # <<>>
    /\ get_notion_page_content(r, FeedAnswer(run[r].start_cursor))

(* ------------------- Synthesis Client and Converter ------------------- *)
\* lines 409-414: the completion call and the conversion of its text; the
\* existing content went into the prompt and is not read again.  lens: the
\* numbers of content lines the completion may have
\* mutant: the failure of the completion call is caught and the update goes
\* on with no content
synth_step_swallowed(rec, res, markdown) ==
    [rec EXCEPT !.new_blocks = markdown_to_notion_blocks(markdown),
                !.listed = <<>>, !.del_i = 1, !.i = 0, !.pc = "list",
                !.failed_at = IF res = "ok" THEN "" ELSE "synth"]

\* mutant: a completion call that failed is made again
synth_step_retrying(rec, res, markdown) ==
    IF res = "ok"
    THEN [rec EXCEPT !.new_blocks = markdown_to_notion_blocks(markdown),
                     !.existing_content = <<>>,
                     !.listed = <<>>, !.del_i = 1, !.i = 0, !.pc = "list"]
    ELSE rec

synth_step(rec, res, markdown) ==
    IF res = "ok"
    THEN [rec EXCEPT !.new_blocks = markdown_to_notion_blocks(markdown),
                     !.existing_content = <<>>,
                     !.listed = <<>>, !.del_i = 1, !.i = 0, !.pc = "list"]
    ELSE Failed(rec, "synth")

Synthesize(r, lens) ==
    /\ run[r].pc = "synthesize"
    /\ \/ run' = [run EXCEPT ![r] =
                    synth_step(Sent(@, Request("completion", "exception")),
                               "exception", <<>>)]
       \/ \E n \in lens :
             run' = [run EXCEPT ![r] =
                       synth_step(Sent(@, Request("completion", "ok")), "ok",
                                  SynthDoc(run[r].no, n))]
    /\ UNCHANGED <<page, tracking, PR_DATABASE_ID, feed, started, page0, call>>

(* ---------------------------- Page Updater ---------------------------- *)
\* mutant: the slice is taken back to front
batch_of_reversed(new_blocks, i) ==
    LET last == Min(i + batch_size, Len(new_blocks))
    IN  [k \in 1..(last - i) |-> new_blocks[last + 1 - k]]

\* mutant: the slice runs one block into the next batch
batch_of_overlapping(new_blocks, i) ==
    SubSeq(new_blocks, i + 1, Min(i + batch_size + 1, Len(new_blocks)))

\* new_blocks[i:i + batch_size], i counted from 0
batch_of(new_blocks, i) ==
    SubSeq(new_blocks, i + 1, Min(i + batch_size, Len(new_blocks)))

\* mutant: the tracker is gone to whether a database is configured or not
after_update_always_checks(rec) == [rec EXCEPT !.pc = "check"]

\* where the run stands once update_notion_page has returned
after_update(rec) ==
    [rec EXCEPT !.pc = IF PR_DATABASE_ID # None THEN "check" ELSE "done"]

\* mutant: the batches are appended before the listed blocks are deleted
continue_update_append_first(rec) ==
    IF rec.i < Len(rec.new_blocks) THEN [rec EXCEPT !.pc = "append"]
    ELSE IF rec.del_i <= Len(rec.listed) THEN [rec EXCEPT !.pc = "delete"]
    ELSE after_update(rec)

\* the next request of update_notion_page: the deletes of the listed blocks
\* (delete_all_blocks then returns and its locals end), then the batches of
\* range(0, len(new_blocks), batch_size)
continue_update(rec) ==
    IF rec.del_i <= Len(rec.listed) THEN [rec EXCEPT !.pc = "delete"]
    ELSE LET returned == [rec EXCEPT !.listed = <<>>, !.del_i = 1]
         IN  IF rec.i < Len(rec.new_blocks)
             THEN [returned EXCEPT !.pc = "append"]
             ELSE after_update(returned)

\* delete_all_blocks: the listing, a single request without a cursor; a
\* failed listing raises
list_step(rec, res, data) ==
    IF res = "ok"
    THEN continue_update([rec EXCEPT !.listed = data.results, !.del_i = 1])
    ELSE Failed(rec, "list")

DeleteAllList(r) ==
    /\ run[r].pc = "list"
    /\ \E res \in CheckedAnswers :
          run' = [run EXCEPT ![r] =
                    list_step(Sent(@, Request("list_children", res)), res,
                              ListChildren(page, None))]
    /\ UNCHANGED <<page, tracking, PR_DATABASE_ID, feed, started, page0, call>>

\* delete_all_blocks: one pass of the for loop; the response of
\* requests.delete is not looked at, only an exception of the transport ends
\* the run
delete_step(rec, res) ==
    IF res = "exception"
    THEN Failed(rec, "delete")
    ELSE continue_update([rec EXCEPT !.del_i = @ + 1])

DeleteRequest(rec, res) ==
    [Request("delete_block", res) EXCEPT !.block = rec.listed[rec.del_i].text]

\* the store deletes a block that is there; it answers with an error status
\* for a block that is gone, and may for one of the first MaxRejected listed
DeleteBlock(r) ==
    /\ run[r].pc = "delete"
    /\ LET id == run[r].listed[run[r].del_i].text
       IN  \E res \in Answers :
              /\ res = "ok" => OnPage(page, id)
              /\ res = "http_error" =>
                    (run[r].del_i <= MaxRejected \/ ~OnPage(page, id))
              /\ page' = IF res = "ok" THEN RemoveBlock(page, id) ELSE page
              /\ run' = [run EXCEPT ![r] =
                           delete_step(Sent(@, DeleteRequest(@, res)), res)]
    /\ UNCHANGED <<tracking, PR_DATABASE_ID, feed, started, page0, call>>

\* one pass of the batch loop: r.raise_for_status() ends the run on any
\* failed append
append_step(rec, res) ==
    IF res = "ok"
    THEN continue_update([rec EXCEPT !.i = @ + batch_size])
    ELSE Failed(rec, "append")

AppendRequest(rec, res) ==
    [Request("append_children", res) EXCEPT
        !.batch = batch_of(rec.new_blocks, rec.i)]

AppendBatch(r) ==
    /\ run[r].pc = "append"
    /\ \E res \in CheckedAnswers :
          /\ page' = IF res = "ok"
                     THEN page \o batch_of(run[r].new_blocks, run[r].i)
                     ELSE page
          /\ run' = [run EXCEPT ![r] =
                       append_step(Sent(@, AppendRequest(@, res)), res)]
    /\ UNCHANGED <<tracking, PR_DATABASE_ID, feed, started, page0, call>>

(* ----------------------------- PR Tracker ----------------------------- *)
\* mutant: the result is taken to exist only from the second row on
check_pr_exists_off_by_one(rows, pr_url) ==
    Len(QueryByUrl(rows, pr_url)) > 1

\* the query asks for one row at most ("page_size": 1)
check_pr_exists_in_database(rows, pr_url) ==
    LET results == SubSeq(QueryByUrl(rows, pr_url), 1,
                          Min(1, Len(QueryByUrl(rows, pr_url))))
    IN  Len(results) > 0

\* mutant: the row is inserted whatever the check found
check_step_always_adds(rec, res, rows) ==
    IF res = "ok"
    THEN [rec EXCEPT !.exists = check_pr_exists_in_database(rows, rec.pr.url),
                     !.pc = "add"]
    ELSE Failed(rec, "check")

\* lines 422-425: insert only when the check found nothing
check_step(rec, res, rows) ==
    IF res = "ok"
    THEN LET found == check_pr_exists_in_database(rows, rec.pr.url)
         IN  [rec EXCEPT !.exists = found,
                         !.pc = IF found THEN "done" ELSE "add"]
    ELSE Failed(rec, "check")

QueryRequest(rec, res) ==
    [Request("query_database", res) EXCEPT !.url = rec.pr.url]

CheckPr(r) ==
    /\ run[r].pc = "check"
    /\ \E res \in CheckedAnswers :
          run' = [run EXCEPT ![r] =
                    check_step(Sent(@, QueryRequest(@, res)), res, tracking)]
    /\ UNCHANGED <<page, tracking, PR_DATABASE_ID, feed, started, page0, call>>

\* the row add_pr_to_database inserts: the Link and the Prefix properties
TrackingRow(rec) ==
    [url |-> rec.pr.url,
     prefix |-> IF rec.prefix # None /\ rec.prefix[1] # <<>>
                THEN rec.prefix[1] ELSE <<"n","o","n","e">>]

add_step(rec, res) ==
    IF res = "ok" THEN [rec EXCEPT !.pc = "done"] ELSE Failed(rec, "add")

CreateRequest(rec, res) ==
    [Request("create_page", res) EXCEPT !.url = rec.pr.url]

\* the store inserts whatever row it is sent: it has no uniqueness constraint
AddPr(r) ==
    /\ run[r].pc = "add"
    /\ \E res \in CheckedAnswers :
          /\ tracking' = IF res = "ok"
                         THEN Append(tracking, TrackingRow(run[r]))
                         ELSE tracking
          /\ run' = [run EXCEPT ![r] =
                       add_step(Sent(@, CreateRequest(@, res)), res)]
    /\ UNCHANGED <<page, PR_DATABASE_ID, feed, started, page0, call>>

(* --------------------------- specifications --------------------------- *)
\* the numbers of pre-existing blocks, and of synthesized content lines
OldLens == (0..MaxOld) \cup {page_size + 1}
NewLens ==
    (0..MaxNew) \cup {k * batch_size + d : k \in 1..MaxBatches, d \in 0..1}

RunStep(r, lens) ==
    \/ Start(r)
    \/ ReadStore(r)
    \/ Synthesize(r, lens)
    \/ DeleteAllList(r)
    \/ DeleteBlock(r)
    \/ AppendBatch(r)
    \/ CheckPr(r)
    \/ AddPr(r)

InitStore(lens) ==
    /\ page \in {OldPage(m) : m \in lens}
    /\ page0 = page
    /\ tracking = <<>>
    /\ PR_DATABASE_ID \in {None, Some("db")}
    /\ feed = <<>>
    /\ started = 0
    /\ run = [r \in Runs |-> IdleRun]
    /\ call = NoCall

\* one run of main() on a page of any of the sizes
Init == InitStore(OldLens)
Next == RunStep(1, NewLens)
Spec == Init /\ [][Next]_vars

\* runs one after the other on a small page, the tracking database configured:
\* a run starts when the run before it has ended
InitSmall ==
    /\ InitStore(0..MaxOld)
    /\ PR_DATABASE_ID # None
NextSeq ==
    \/ RunStep(1, 0..MaxNew)
    \/ Restart(1)
SpecSeq == InitSmall /\ [][NextSeq]_vars

\* runs that interleave freely, request by request, on the same page and the
\* same tracking database
NextConc ==
    \E r \in Runs :
        /\ IF r = 1 THEN TRUE ELSE run[r - 1].pc # "idle"
        /\ RunStep(r, 0..MaxNew)
SpecConc == InitSmall /\ [][NextConc]_vars

\* the chains of listing pages: has_more on all but the last, each carrying
\* the cursor of the next; the blocks of page j are <<j, 1>>, <<j, 2>>, ...
Chain(lens) ==
    [j \in DOMAIN lens |->
        [results |-> [k \in 1..lens[j] |-> Block(j, k)],
         has_more |-> j < Len(lens),
         next_cursor |-> IF j < Len(lens) THEN Some(j + 1) ELSE None]]

Chains ==
    UNION {{Chain(lens) : lens \in [1..n -> 0..MaxPageBlocks]} : n \in 1..MaxPages}

\* a Content Reader, called by a run that has passed routing, on a chain
InitReader ==
    /\ page = <<>>
    /\ page0 = <<>>
    /\ tracking = <<>>
    /\ PR_DATABASE_ID = None
    /\ feed \in Chains
    /\ started = 1
    /\ call = NoCall
    /\ \E pr \in PRs, mapping \in Mappings :
          /\ main_start(IdleRun, pr, mapping).pc = "read"
          /\ run = [r \in Runs |->
                      IF r = 1
                      THEN main_start([IdleRun EXCEPT !.no = 1], pr, mapping)
                      ELSE IdleRun]
NextReader == ReadFed(1)
SpecReader == InitReader /\ [][NextReader]_vars

\* one run of main() on a small page, the tracking database configured or
\* not, and holding no row or the row of a pull request
TrackedRows == {<<>>, <<[url |-> "pr/1", prefix |-> feat_key]>>}
InitTracked ==
    /\ page \in {OldPage(m) : m \in 0..MaxOld}
    /\ page0 = page
    /\ tracking \in TrackedRows
    /\ PR_DATABASE_ID \in {None, Some("db")}
    /\ feed = <<>>
    /\ started = 0
    /\ run = [r \in Runs |-> IdleRun]
    /\ call = NoCall
NextTracked == RunStep(1, 0..MaxNew)
SpecTracked == InitTracked /\ [][NextTracked]_vars

\* the reader against a sequence of answers: the j-th listing request gets
\* the j-th of them, whatever cursor it carries
ReadSequence(r) ==
    /\ feed # <<>>
    /\ Len(run[r].requests) < Len(feed)
    /\ get_notion_page_content(r, feed[Len(run[r].requests) + 1])

\* the answers a store may give one after the other: none or one block each,
\* has_more true or false and a cursor for the next page or none, in any
\* combination, but has_more false in the last
Answered(shape) ==
    [j \in DOMAIN shape |->
        [results |-> [k \in 1..shape[j].len |-> Block(j, k)],
         has_more |-> j < Len(shape) /\ shape[j].has_more,
         next_cursor |-> IF shape[j].has_cursor THEN Some(j + 1) ELSE None]]

AnswerSeqs(pages) ==
    UNION {{Answered(shape) :
               shape \in [1..n -> [len : 0..1, has_more : BOOLEAN,
                                   has_cursor : BOOLEAN]]} : n \in 1..pages}

InitPaging ==
    /\ page = <<>>
    /\ page0 = <<>>
    /\ tracking = <<>>
    /\ PR_DATABASE_ID = None
    /\ feed \in AnswerSeqs(MaxPages)
    /\ started = 1
    /\ call = NoCall
    /\ run = [r \in Runs |->
                IF r = 1
                THEN main_start([IdleRun EXCEPT !.no = 1],
                                [url |-> "pr/2", branch |-> <<"m","a","i","n">>],
                                default_key :> TargetCompact)
                ELSE IdleRun]
NextPaging == ReadSequence(1)
SpecPaging == InitPaging /\ [][NextPaging]_vars

(* ------------------- the functions, called on their own --------------- *)
\* the strings of at most n of the tokens
Strings(tokens, n) ==
    UNION {{Concat(ts) : ts \in [1..k -> tokens]} : k \in 0..n}

\* branch names, pr["head"]["ref"]: those of at most n characters and three
\* longer ones
Branches(n) ==
    Strings({<<"a">>, <<"B">>, <<"1">>, <<"_">>, <<"-">>, <<"/">>, <<".">>}, n)
        \cup {<<"f","e","a","t","/","x">>, <<"m","a","i","n">>,
              <<"B","U","G","/","Y">>}

chore_key == <<"c","h","o","r","e">>
fix_key == <<"f","i","x">>

\* page_mapping.json: any of the keys, each with one of two page ids
RouteMappings ==
    UNION {[keys -> {<<"P","0">>, <<"P","1">>}] :
               keys \in SUBSET {feat_key, chore_key, default_key}}

\* the prefixes extract_prefix_from_branch may return
RoutePrefixes ==
    {None, Some(feat_key), Some(chore_key), Some(fix_key), Some(default_key)}

\* n characters, those of pattern over and over
Fill(n, pattern) == [i \in 1..n |-> pattern[((i - 1) % Len(pattern)) + 1]]

\* s with a hyphen in front of the characters at the offsets (from 0)
Hyphenate(s, offsets) ==
    Concat([i \in 1..(Len(s) + 1) |->
               (IF i - 1 \in offsets THEN <<"-">> ELSE <<>>)
                   \o (IF i <= Len(s) THEN <<s[i]>> ELSE <<>>)])

\* the values page_mapping.json may hold for a page: of the right length or
\* up to slack off it, hex digits in either case or other characters, the
\* first of them U+0130 or not, hyphens nowhere, at the canonical offsets or
\* elsewhere
ConfiguredIds(slack) ==
    {Hyphenate(head \o Fill(n - Len(head), pattern), offsets) :
        n \in (ID_LEN - slack)..(ID_LEN + slack),
        head \in {<<>>, <<"U+0130">>},
        pattern \in {<<"0","a","9","f","3">>, <<"A","1","F","b","C","d","E">>,
                     <<"g","Z","7">>},
        offsets \in {{}, {8, 12, 16, 20}, {0, 1, ID_LEN - slack}}}

\* the tokens the lines of a markdown text are made of
LineTokens ==
    {<<"#">>, <<"#","#">>, <<"-">>, <<" ">>, <<"1">>, <<".">>, <<"x">>,
     <<"\t">>, bullet}

\* markdown texts, as their lines: every line of at most tokens tokens on its
\* own, and the texts of up to lines of a few lines
FewLines ==
    {<<>>, <<" ">>, <<"#"," ","x">>, <<"-"," ","x"," ">>, <<"1","."," ","x">>,
     <<"x">>, <<" ","#"," ","x">>}
Markdowns(tokens, lines) ==
    {<<line>> : line \in Strings(LineTokens, tokens)}
        \cup UNION {[1..n -> FewLines] : n \in 1..lines}

\* block sequences of a page: at most n blocks of the six types
PageTexts == {<<"x">>, <<"x"," ","y">>, <<"#"," ","x">>, <<"x"," ">>}
PageBlocks == {[type |-> BlockTypes[t], text |-> text] :
                  t \in DOMAIN BlockTypes, text \in PageTexts}
BlockSeqs(n) == UNION {[1..k -> PageBlocks] : k \in 0..n}

Call(fn, args) == [fn |-> fn, args |-> args, returned |-> <<>>]

Return(value) ==
    /\ call' = [call EXCEPT !.returned = Append(@, value)]
    /\ UNCHANGED <<page, tracking, PR_DATABASE_ID, feed, started, page0, run>>

ExtractPrefix ==
    /\ call.fn = "extract_prefix_from_branch" /\ call.returned = <<>>
    /\ Return(extract_prefix_from_branch(call.args[1]))

RoutePrefix ==
    /\ call.fn = "get_page_id_for_prefix" /\ call.returned = <<>>
    /\ Return(get_page_id_for_prefix(call.args[1], call.args[2]))

FormatPageId ==
    /\ call.fn = "format_page_id" /\ call.returned = <<>>
    /\ Return(format_page_id(call.args[1]))

\* the identifier format_page_id returned is formatted again
FormatPageIdAgain ==
    /\ call.fn = "format_page_id" /\ Len(call.returned) = 1
    /\ call.returned[1].ok
    /\ Return(format_page_id(call.returned[1].val))

ConvertMarkdown ==
    /\ call.fn = "markdown_to_notion_blocks" /\ call.returned = <<>>
    /\ Return(markdown_to_notion_blocks(call.args[1]))

\* the text get_notion_page_content renders of a page's blocks is converted
RenderAndConvert ==
    /\ call.fn = "get_notion_page_content" /\ call.returned = <<>>
    /\ Return(markdown_to_notion_blocks(RenderBlocks(call.args[1])))

InitCalls ==
    /\ page = <<>>
    /\ page0 = <<>>
    /\ tracking = <<>>
    /\ PR_DATABASE_ID = None
    /\ feed = <<>>
    /\ started = 0
    /\ run = [r \in Runs |-> IdleRun]
    /\ \/ \E branch \in Branches(MaxBranchLen) :
             call = Call("extract_prefix_from_branch", <<branch>>)
       \/ \E prefix \in RoutePrefixes, mapping \in RouteMappings :
             call = Call("get_page_id_for_prefix", <<prefix, mapping>>)
       \/ \E id \in ConfiguredIds(MaxIdSlack) :
             call = Call("format_page_id", <<id>>)
       \/ \E markdown \in Markdowns(MaxLineTokens, MaxLines) :
             call = Call("markdown_to_notion_blocks", <<markdown>>)
       \/ \E blocks \in BlockSeqs(MaxBlocks) :
             call = Call("get_notion_page_content", <<blocks>>)
NextCalls ==
    \/ ExtractPrefix
    \/ RoutePrefix
    \/ FormatPageId
    \/ FormatPageIdAgain
    \/ ConvertMarkdown
    \/ RenderAndConvert
SpecCalls == InitCalls /\ [][NextCalls]_vars

\* one run of main() on a small page, page_mapping.json holding any of the
\* configured ids as its default entry, or being one of Mappings
IdMappings(slack) ==
    Mappings \cup {default_key :> id : id \in ConfiguredIds(slack)}
StartIds ==
    /\ run[1].pc = "idle"
    /\ BeginWith(1, IdMappings(MaxIdSlack))
NextIds ==
    \/ StartIds
    \/ ReadStore(1)
    \/ Synthesize(1, 0..MaxNew)
    \/ DeleteAllList(1)
    \/ DeleteBlock(1)
    \/ AppendBatch(1)
    \/ CheckPr(1)
    \/ AddPr(1)
InitIds == InitStore(0..MaxOld)
SpecIds == InitIds /\ [][NextIds]_vars

(* ------------------------ reading the history ------------------------- *)
StoreOps == {"list_children", "delete_block", "append_children",
             "query_database", "create_page"}

\* the positions in a run's requests of the requests of kind op
RequestsOf(rec, op) == {j \in DOMAIN rec.requests : rec.requests[j].op = op}

RECURSIVE Flatten(_)
Flatten(batches) ==
    IF batches = <<>> THEN <<>>
    ELSE Flatten(SubSeq(batches, 1, Len(batches) - 1)) \o batches[Len(batches)].batch

\* the batches of the appends the store accepted, concatenated in send order
Appended(reqs) ==
    Flatten(SelectSeq(reqs, LAMBDA e : e.op = "append_children" /\ e.res = "ok"))

\* update_notion_page has returned without raising
UpdateReturned(rec) ==
    \/ rec.pc \in {"check", "add", "done"}
    \/ rec.pc = "failed" /\ rec.failed_at \in {"check", "add"}

IsPrefixOf(s, t) == Len(s) <= Len(t) /\ s = SubSeq(t, 1, Len(s))

\* the children of the page that the synthesis of run number no produced
OwnedBy(children, no) == SelectSeq(children, LAMBDA b : b.text[1] = ToString(no))

(* ------------------------------- claims ------------------------------- *)
\* C1: a run that failed in prefix routing, identifier normalization, the
\* content read or the synthesis call has issued no block-delete and no
\* children-append request, and the page is as it was before the run.
C1_NoWriteAfterEarlyFailure ==
    \A r \in Runs :
        run[r].failed_at \in {"route", "normalize", "read", "synth"} =>
            /\ RequestsOf(run[r], "delete_block") = {}
            /\ RequestsOf(run[r], "append_children") = {}
            /\ page = page0

\* C1 witness: the synthesis call failed on a page that had blocks to lose
C1_Witness ==
    /\ run[1].pc = "failed"
    /\ run[1].failed_at = "synth"
    /\ Len(page0) > 0

\* C2 (the claim as stated): once update_notion_page has returned, the
\* page's children are exactly the new block sequence.
C2_PageEqualsNewBlocks ==
    \A r \in Runs : UpdateReturned(run[r]) => page = run[r].new_blocks

\* C3 (the claim as stated): a store request that failed is the run's last
\* request, and the run has not reported success.
C3_FailedCallStopsRun ==
    \A r \in Runs : \A j \in DOMAIN run[r].requests :
        (run[r].requests[j].op \in StoreOps /\ run[r].requests[j].res # "ok") =>
            /\ j = Len(run[r].requests)
            /\ run[r].pc = "failed"

\* C4: in a run every block-delete request comes before every
\* children-append request, the batches are sent in converter order, and the
\* run's blocks on the page are in source line order.
C4_DeleteBeforeAppendInOrder ==
    \A r \in Runs :
        /\ LET deletes == RequestsOf(run[r], "delete_block")
               appends == RequestsOf(run[r], "append_children")
           IN  \A a \in appends : \A d \in deletes : d < a
        /\ IsPrefixOf(Appended(run[r].requests), run[r].new_blocks)
        /\ run[r].pc # "idle" =>
              OwnedBy(page, run[r].no) = Appended(run[r].requests)

\* C4 witness: a finished run that deleted blocks and sent two batches
C4_Witness ==
    /\ run[1].pc = "done"
    /\ Cardinality(RequestsOf(run[1], "delete_block")) >= 2
    /\ Cardinality(RequestsOf(run[1], "append_children")) >= 2

\* C5: an update that returned sent exactly ceil(n / 100) append requests for
\* its n new blocks; every batch of any run holds between 1 and 100 blocks;
\* the batches in send order make up the new block sequence.
C5_BatchesPartitionNewBlocks ==
    \A r \in Runs :
        /\ \A a \in RequestsOf(run[r], "append_children") :
              /\ Len(run[r].requests[a].batch) >= 1
              /\ Len(run[r].requests[a].batch) <= 100
        /\ UpdateReturned(run[r]) =>
              /\ Cardinality(RequestsOf(run[r], "append_children"))
                    = (Len(run[r].new_blocks) + 99) \div 100
              /\ Appended(run[r].requests) = run[r].new_blocks

\* C5 witness: an update of 201 blocks returned (three batches, the last of 1)
C5_Witness ==
    /\ UpdateReturned(run[1])
    /\ Len(run[1].new_blocks) = 2 * batch_size + 1
    /\ Cardinality(RequestsOf(run[1], "append_children")) = 3

\* C6 (the claim as stated): once the deletes are over, every block that was
\* on the page before the update has had exactly one delete request.
C6_OneDeletePerExistingBlock ==
    \A r \in Runs :
        (run[r].pc = "append" \/ UpdateReturned(run[r])) =>
            \A k \in DOMAIN page0 :
                Cardinality({j \in RequestsOf(run[r], "delete_block") :
                    run[r].requests[j].block = page0[k].text}) = 1

RECURSIVE FeedBlocks(_, _)
\* the blocks of the first n pages of a chain, in chain order
FeedBlocks(chain, n) ==
    IF n = 0 THEN <<>> ELSE FeedBlocks(chain, n - 1) \o chain[n].results

\* C7: fed a chain of listing pages, the Content Reader requests the pages
\* one after the other, each once, with the cursor the page before carried;
\* the blocks it holds are those of the pages read so far in chain order, and
\* when it renders it holds the blocks of all pages.
C7_ReaderAccumulatesAllPages ==
    LET rec == run[1]
        lists == RequestsOf(rec, "list_children")
        read == Cardinality({j \in lists : rec.requests[j].res = "ok"})
    IN  /\ \A j \in lists :
              /\ j <= Len(feed)
              /\ rec.requests[j].cursor
                    = IF j = 1 THEN None ELSE feed[j - 1].next_cursor
        /\ rec.pc = "read" =>
              /\ rec.blocks = FeedBlocks(feed, read)
              /\ rec.existing_content = <<>>
        /\ rec.pc = "synthesize" =>
              /\ read = Len(feed)
              /\ rec.existing_content = RenderBlocks(FeedBlocks(feed, Len(feed)))

\* C7 witness: the reader has returned from a chain of three pages
\* (has_more true, true, false), none of them empty
C7_Witness ==
    /\ run[1].pc = "synthesize"
    /\ Len(feed) = 3
    /\ \A j \in DOMAIN feed : Len(feed[j].results) > 0

\* C8: over runs that do not overlap, with tracking configured, the tracking
\* database holds at most one row per pull-request URL.
C8_OneRowPerUrl ==
    \A pr \in PRs : Len(QueryByUrl(tracking, pr.url)) <= 1

\* C8 witness: the second run found the row of the first and inserted none
C8_Witness ==
    /\ run[1].no = 2
    /\ run[1].pc = "done"
    /\ run[1].exists
    /\ Len(QueryByUrl(tracking, run[1].pr.url)) = 1

\* the rows a run has had inserted (0 or 1)
Inserted(rec) ==
    Cardinality({j \in RequestsOf(rec, "create_page") : rec.requests[j].res = "ok"})

\* C9: the idempotency is check-then-act: a run sends the insert only after
\* its own existence check answered false, and the store keeps every row it
\* is sent, whatever rows it holds (so that two interleaved runs for one URL
\* leave two rows: the witness).
C9_CheckThenActOnly ==
    /\ \A r \in Runs :
          RequestsOf(run[r], "create_page") # {} =>
              /\ ~run[r].exists
              /\ \E q \in RequestsOf(run[r], "query_database") :
                    /\ run[r].requests[q].res = "ok"
                    /\ \A c \in RequestsOf(run[r], "create_page") : q < c
    /\ \A pr \in PRs :
          Len(QueryByUrl(tracking, pr.url))
              = Cardinality({r \in Runs : run[r].pr.url = pr.url /\ Inserted(run[r]) = 1})

\* C9 witness: two runs for the same URL have both ended with success and the
\* tracking database holds two rows for it
C9_Witness ==
    /\ run[1].pc = "done" /\ run[2].pc = "done"
    /\ run[1].pr.url = run[2].pr.url
    /\ ~run[1].exists /\ ~run[2].exists
    /\ Len(QueryByUrl(tracking, run[1].pr.url)) = 2

\* every delete request of the run was answered ok
DeletesDone(rec) ==
    \A j \in RequestsOf(rec, "delete_block") : rec.requests[j].res = "ok"

\* C10 (the claim as stated, in the runs where the store refuses no delete):
\* when the updates of two runs on the page have both returned, the page
\* holds the new block sequence of one of them.
C10_LastWriterWins ==
    (/\ UpdateReturned(run[1]) /\ UpdateReturned(run[2])
     /\ DeletesDone(run[1]) /\ DeletesDone(run[2])) =>
        (page = run[1].new_blocks \/ page = run[2].new_blocks)

RECURSIVE IsSubseq(_, _)
\* s is t with some elements left out
IsSubseq(s, t) ==
    IF s = <<>> THEN TRUE
    ELSE IF t = <<>> THEN FALSE
    ELSE IF s[1] = t[1] THEN IsSubseq(Tail(s), Tail(t))
    ELSE IsSubseq(s, Tail(t))

\* C10 (amended): when the updates of two runs have both returned, every
\* block of the page is a block of the page before the runs or of one of the
\* two new block sequences, and the blocks of each run that are on the page
\* are in that run's converter order, none twice.
C10_MergeOfBothRuns ==
    (UpdateReturned(run[1]) /\ UpdateReturned(run[2])) =>
        /\ \A k \in DOMAIN page :
              \E no \in {0, run[1].no, run[2].no} : page[k].text[1] = ToString(no)
        /\ IsSubseq(OwnedBy(page, 0), OldPage(MaxOld))
        /\ \A r \in Runs : IsSubseq(OwnedBy(page, run[r].no), run[r].new_blocks)

\* C10 witness: both updates have returned and the page is the first run's
\* blocks followed by the second's
C10_Witness ==
    /\ UpdateReturned(run[1]) /\ UpdateReturned(run[2])
    /\ Len(run[1].new_blocks) >= 2 /\ Len(run[2].new_blocks) >= 2
    /\ page = run[1].new_blocks \o run[2].new_blocks

\* the tracking database holds a row whose Link is url
HasRow(rows, url) == \E i \in DOMAIN rows : rows[i].url = url

\* C11: the existence check leaves the tracking database as it is and answers
\* whether the database holds a row for the URL: so two checks for a URL with
\* no insert between them answer the same; an insert that succeeded leaves a
\* row for its URL, and no step takes a row away, so every later check for
\* that URL answers true.
C11_CheckIsReadOnly ==
    [][/\ \A r \in Runs :
             /\ (run[r].pc = "check" /\ run'[r].pc # "check") =>
                    /\ tracking' = tracking
                    /\ run'[r].pc # "failed" =>
                          run'[r].exists = HasRow(tracking, run[r].pr.url)
             /\ (run[r].pc = "add" /\ run'[r].pc = "done") =>
                    HasRow(tracking', run[r].pr.url)
       /\ IsPrefixOf(tracking, tracking')]_vars

\* C11 witness: the check of one run answered false and it inserted; the
\* check of the other run for the same URL answered true
C11_Witness ==
    /\ Inserted(run[1]) = 1
    /\ run[2].exists
    /\ run[2].pr.url = run[1].pr.url
    /\ RequestsOf(run[2], "create_page") = {}

\* the request returned to the program without raising
Returned(req) ==
    req.res = "ok" \/ (req.op = "delete_block" /\ req.res = "http_error")

\* C12: the requests of a run come stage by stage, each stage once and only
\* after the stage before it has returned without raising: the router and the
\* normalizer (no request), the reader's listings, one completion call at
\* most, the conversion, the updater's single listing with its deletes and
\* appends, at most one tracking query and after it at most one insert.
C12_StagesInOrderOnce ==
    \A r \in Runs :
        LET rec == run[r]
            reqs == rec.requests
            comp == RequestsOf(rec, "completion")
            lists == RequestsOf(rec, "list_children")
            qs == RequestsOf(rec, "query_database")
            cs == RequestsOf(rec, "create_page")
        IN  /\ Cardinality(comp) <= 1 /\ Cardinality(qs) <= 1
            /\ Cardinality(cs) <= 1
            /\ reqs # <<>> => rec.page_id # None
            /\ \A j \in 1..(Len(reqs) - 1) : Returned(reqs[j])
            /\ comp = {} =>
                  /\ \A j \in DOMAIN reqs : reqs[j].op = "list_children"
                  /\ rec.new_blocks = <<>>
                  /\ rec.pc \in {"idle", "read", "synthesize", "failed"}
            /\ \A c \in comp :
                  /\ \A j \in 1..(c - 1) : reqs[j].op = "list_children"
                  /\ c >= 2
                  /\ rec.new_blocks # <<>> => reqs[c].res = "ok"
                  /\ c < Len(reqs) => reqs[c + 1].op = "list_children"
                  /\ \A j \in (c + 2)..Len(reqs) :
                        reqs[j].op \in {"delete_block", "append_children",
                                        "query_database", "create_page"}
                  /\ rec.pc \notin {"idle", "read", "synthesize"}
            /\ \A q \in qs :
                  /\ \A j \in (q + 1)..Len(reqs) : reqs[j].op = "create_page"
                  /\ rec.pc \in {"add", "done", "failed"}
            /\ cs # {} => rec.pc \in {"done", "failed"}
            /\ rec.pc = "check" => qs = {}
            /\ rec.pc = "add" => cs = {}

\* C12 witness: a run has gone through every stage: two listings of the
\* reader, the completion, the updater's listing, deletes, two batches, the
\* tracking query and the insert
C12_Witness ==
    /\ run[1].pc = "done"
    /\ Cardinality(RequestsOf(run[1], "list_children")) = 3
    /\ RequestsOf(run[1], "delete_block") # {}
    /\ Cardinality(RequestsOf(run[1], "append_children")) = 2
    /\ RequestsOf(run[1], "create_page") # {}

\* the call of fn has returned
Called(fn) == call.fn = fn /\ call.returned # <<>>

\* C13: for every mapping and every prefix the router can be given (a defined
\* prefix or none), the page id returned is the mapping's entry for the
\* prefix when it has one, else its "default" entry when it has one, and
\* else the call raises and returns no page id.
C13_RoutingResolution ==
    Called("get_page_id_for_prefix") =>
        LET prefix == call.args[1]
            mapping == call.args[2]
            out == call.returned[1]
        IN  IF prefix # None /\ prefix[1] \in DOMAIN mapping
            THEN out.ok /\ out.val = mapping[prefix[1]]
            ELSE IF default_key \in DOMAIN mapping
            THEN out.ok /\ out.val = mapping[default_key]
            ELSE ~out.ok /\ out.val = "ValueError"

\* C13 witness: a prefix and the default are both mapped, to different
\* pages, and the router returned
C13_Witness ==
    /\ Called("get_page_id_for_prefix")
    /\ call.args[1] = Some(feat_key)
    /\ {feat_key, default_key} \subseteq DOMAIN call.args[2]
    /\ call.args[2][feat_key] # call.args[2][default_key]

\* the characters of the prefix: alphanumerics, underscore and hyphen
PrefixAlphabet ==
    {"a","b","c","d","e","f","g","h","i","j","k","l","m","n","o","p","q","r",
     "s","t","u","v","w","x","y","z","A","B","C","D","E","F","G","H","I","J",
     "K","L","M","N","O","P","Q","R","S","T","U","V","W","X","Y","Z",
     "0","1","2","3","4","5","6","7","8","9","_","-"}

\* the positions of the "/" that end a non-empty run of such characters
\* starting the branch name (one at most)
PrefixEnds(branch) ==
    {k \in 2..Len(branch) :
        /\ branch[k] = "/"
        /\ \A i \in 1..(k - 1) : branch[i] \in PrefixAlphabet}

\* C14: the prefix of a branch name is its leading run of alphanumerics,
\* underscore and hyphen, lowercased, when the run is not empty and a "/"
\* follows it, and is undefined otherwise; a defined prefix is not empty, has
\* no uppercase letter and no "/".
C14_PrefixExtraction ==
    Called("extract_prefix_from_branch") =>
        LET branch == call.args[1]
            out == call.returned[1]
        IN  /\ \A k \in PrefixEnds(branch) :
                  /\ out # None
                  /\ Len(out[1]) = k - 1
                  /\ \A i \in 1..(k - 1) :
                        out[1][i] = IF branch[i] \in Range(UpperChars)
                                    THEN LowerChar(branch[i]) ELSE branch[i]
            /\ PrefixEnds(branch) = {} => out = None
            /\ out # None =>
                  /\ out[1] # <<>>
                  /\ \A i \in DOMAIN out[1] :
                        out[1][i] \notin Range(UpperChars) \cup {"/"}

\* C14 witness: a branch name with uppercase letters in its prefix, and a
\* second "/" further on
C14_Witness ==
    /\ Called("extract_prefix_from_branch")
    /\ call.args[1] = <<"B", "/", "/">>
    /\ call.returned[1] = Some(<<"b">>)

\* the positions of the hyphens of s
HyphensOf(s) == {i \in DOMAIN s : s[i] = "-"}

\* C15 (the claim as stated): format_page_id raises for every input whose
\* length without hyphens is not 32; what it returns has hyphens after the
\* characters 8, 12, 16 and 20 and nowhere else and no uppercase letter, and
\* formatting it again returns it unchanged.
C15_NormalizeIdempotent ==
    Called("format_page_id") =>
        LET id == call.args[1]
            first == call.returned[1]
        IN  /\ Len(RemoveHyphens(id)) # 32 => ~first.ok
            /\ first.ok =>
                  /\ HyphensOf(first.val) = {9, 14, 19, 24}
                  /\ Len(first.val) = 36
                  /\ \A i \in DOMAIN first.val :
                        first.val[i] \notin Range(UpperChars)
            /\ Len(call.returned) = 2 =>
                  /\ call.returned[2].ok
                  /\ call.returned[2].val = first.val

HexChars == Digits \cup {"a","b","c","d","e","f","A","B","C","D","E","F"}

\* C16 (the claim as stated): a run that has sent a request to the store has
\* a page id of exactly 32 hex characters once the hyphens are removed.
C16_RequestsUseHexIds ==
    \A r \in Runs :
        run[r].requests # <<>> =>
            /\ run[r].page_id # None
            /\ Len(RemoveHyphens(run[r].page_id[1])) = 32
            /\ Range(RemoveHyphens(run[r].page_id[1])) \subseteq HexChars

\* a line without the whitespace at its two ends
Trim(line) ==
    LET right == rstrip(line)
        first == CHOOSE k \in 1..(Len(right) + 1) :
                     /\ \A i \in 1..(k - 1) : right[i] \in Whitespace
                     /\ (k <= Len(right) => right[k] \notin Whitespace)
    IN  SubSeq(right, first, Len(right))

\* the length of the marker "<digits>. " a line starts with, 0 when it does
\* not start with one
DigitsDotSpace(line) ==
    IF \E d \in 1..(Len(line) - 2) :
           /\ \A i \in 1..d : line[i] \in Digits
           /\ line[d + 1] = "." /\ line[d + 2] = " "
    THEN 2 + CHOOSE d \in 1..(Len(line) - 2) :
                 /\ \A i \in 1..d : line[i] \in Digits
                 /\ line[d + 1] = "." /\ line[d + 2] = " "
    ELSE 0

\* the rule table of the converter, top to bottom, on a trimmed line
TableBlock(line) ==
    IF StartsWith(line, <<"#", " ">>)
    THEN [type |-> "heading_1", text |-> Drop(line, 2)]
    ELSE IF StartsWith(line, <<"#", "#", " ">>)
    THEN [type |-> "heading_2", text |-> Drop(line, 3)]
    ELSE IF StartsWith(line, <<"#", "#", "#", " ">>)
    THEN [type |-> "heading_3", text |-> Drop(line, 4)]
    ELSE IF StartsWith(line, <<"-", " ">>)
    THEN [type |-> "bulleted_list_item", text |-> Drop(line, 2)]
    ELSE IF StartsWith(line, bullet \o <<" ">>)
    THEN [type |-> "bulleted_list_item", text |-> Drop(line, Len(bullet) + 1)]
    ELSE IF DigitsDotSpace(line) > 0
    THEN [type |-> "numbered_list_item", text |-> Drop(line, DigitsDotSpace(line))]
    ELSE [type |-> "paragraph", text |-> line]

\* C17 (the claim as stated): the converter returns one block for every line
\* that is not empty once trimmed, in line order, and each block is the one
\* the first matching rule of the table gives for the trimmed line.
C17_OneBlockPerTrimmedLine ==
    Called("markdown_to_notion_blocks") =>
        LET lines == call.args[1]
            trimmed == [i \in DOMAIN lines |-> Trim(lines[i])]
            kept == SelectSeq(trimmed, LAMBDA line : line # <<>>)
        IN  call.returned[1] = [i \in DOMAIN kept |-> TableBlock(kept[i])]

\* C18 (the claim as stated): the text the Content Reader renders of a
\* sequence of blocks with text converts back to the same sequence of types
\* and texts (a numbered item to a numbered item of the same text).
C18_RenderThenConvert ==
    Called("get_notion_page_content") => call.returned[1] = call.args[1]

\* C19 (the claim as stated): given answers of which the last has has_more
\* false, the reader sends no more requests than there are answers and has
\* left its loop when it has had them all, and no two of its listing
\* requests ask for the same page (carry the same cursor, or both none).
C19_ReaderNeverRepeats ==
    LET rec == run[1]
        lists == RequestsOf(rec, "list_children")
    IN  /\ Len(rec.requests) <= Len(feed)
        /\ Len(rec.requests) = Len(feed) => rec.pc # "read"
        /\ \A i \in lists : \A j \in lists :
              i # j => rec.requests[i].cursor # rec.requests[j].cursor

\* C20: a run sends a tracking query or insert only when a tracking database
\* is configured and after its page update has returned (every request
\* before returned without raising and every batch was appended); a run whose
\* update failed has sent none and left the rows alone; without a database
\* the run ends with success once the update has returned; and the insert
\* comes only after the run's own query answered that no row exists.
C20_TrackerOnlyAfterUpdate ==
    \A r \in Runs :
        LET rec == run[r]
            tracker == RequestsOf(rec, "query_database")
                           \cup RequestsOf(rec, "create_page")
            inserts == RequestsOf(rec, "create_page")
        IN  /\ \A t \in tracker :
                  /\ PR_DATABASE_ID # None
                  /\ UpdateReturned(rec)
                  /\ \A j \in 1..(t - 1) : Returned(rec.requests[j])
            /\ tracker # {} => Appended(rec.requests) = rec.new_blocks
            /\ rec.failed_at \in {"list", "delete", "append"} =>
                  tracker = {} /\ tracking \in TrackedRows
            /\ PR_DATABASE_ID = None =>
                  /\ tracker = {} /\ tracking \in TrackedRows
                  /\ rec.pc \notin {"check", "add"}
                  /\ rec.pc = "failed" =>
                        rec.failed_at \notin {"check", "add"}
            /\ \A c \in inserts :
                  /\ c >= 2
                  /\ rec.requests[c - 1].op = "query_database"
                  /\ rec.requests[c - 1].res = "ok"
                  /\ ~rec.exists
                  /\ LET before == IF rec.requests[c].res = "ok"
                                    THEN SubSeq(tracking, 1, Len(tracking) - 1)
                                    ELSE tracking
                     IN  ~HasRow(before, rec.pr.url)

\* C20 witness: with a database configured, a run deleted a block and failed
\* in an append: the rows are untouched
C20_Witness ==
    /\ PR_DATABASE_ID # None
    /\ run[1].failed_at = "append"
    /\ RequestsOf(run[1], "delete_block") # {}
    /\ tracking # <<>>

====
